---- MODULE Spec2Model ----
(***************************************************************************)
(* Model of the deliver-client connection (connection.go: Send, Receive,   *)
(* createSignedEnvelope, deliverStream) and of the resource utilities      *)
(* (CreateConfigSignature, ExtractChannelConfig).                          *)
(*                                                                         *)
(* Byte strings are sequences of naturals.  Protobuf messages are encoded  *)
(* as a concatenation of fields <<tag, length>> \o content, empty fields   *)
(* being omitted as proto3 does; decoding parses that format and fails on  *)
(* an illegal tag or a truncated field.                                    *)
(***************************************************************************)
EXTENDS Integers, Sequences, FiniteSets, TLC

(***************************************************************************)
(* Bounds of the model.                                                    *)
(***************************************************************************)
MaxReads == 3
MaxSends == 1
MaxRecvCalls == 2
MaxBytes == 2
MaxNonces == 2

(***************************************************************************)
(* Values.                                                                 *)
(***************************************************************************)
NoErr == "nil"
EOF == "EOF"
Msgs == {"m1", "m2"}
Errs == {"rpc error"}
ErrClosed == "connection is closed"
ErrMarshalNil == "proto: Marshal called with nil"
ErrIdentity == "identity failed"
ErrNonce == "nonce failed"
ErrSign == "sign failed"
ErrWrite == "stream send failed"
NilMsg == [nil |-> TRUE, start |-> 0, stop |-> 0]
SeekInfos == {[nil |-> FALSE, start |-> 1, stop |-> 2], [nil |-> FALSE, start |-> 0, stop |-> 1]}
Conns == {[channelID |-> <<9>>, tlsCertHash |-> <<>>],
          [channelID |-> <<9, 8>>, tlsCertHash |-> <<6>>]}
IdentityBytes == <<7>>
PrivateKey == 4
HeaderType_DELIVER_SEEK_INFO == 5
NoEnvelope == [nil |-> TRUE, Payload |-> <<>>, Signature |-> <<>>]

(***************************************************************************)
(* Wire format.                                                            *)
(***************************************************************************)
Field(tag, b) == IF b = <<>> THEN <<>> ELSE <<tag, Len(b)>> \o b

IntBytes(n) == IF n = 0 THEN <<>> ELSE <<n>>

BadParse == [ok |-> FALSE, fields |-> <<>>]

RECURSIVE Parse(_)
Parse(b) ==
  IF b = <<>> THEN [ok |-> TRUE, fields |-> <<>>]
  ELSE IF b[1] = 0 THEN BadParse
  ELSE IF Len(b) < 2 THEN BadParse
  ELSE IF Len(b) < 2 + b[2] THEN BadParse
  ELSE LET rest == Parse(SubSeq(b, 3 + b[2], Len(b)))
       IN IF rest.ok
          THEN [ok |-> TRUE,
                fields |-> <<[tag |-> b[1], val |-> SubSeq(b, 3, 2 + b[2])]>> \o rest.fields]
          ELSE BadParse

RECURSIVE GetField(_, _)
GetField(fields, tag) ==
  IF fields = <<>> THEN <<>>
  ELSE LET last == fields[Len(fields)]
       IN IF last.tag = tag THEN last.val
          ELSE GetField(SubSeq(fields, 1, Len(fields) - 1), tag)

\* a nested message is written even when it is empty
MessageField(tag, b) == <<tag, Len(b)>> \o b

MarshalSeekInfo(msg) ==
  IF msg.nil THEN [err |-> ErrMarshalNil, bytes |-> <<>>]
  ELSE [err |-> NoErr,
        bytes |-> Field(1, IntBytes(msg.start)) \o Field(2, IntBytes(msg.stop))]

MarshalChannelHeader(ch) ==
  Field(1, IntBytes(ch.Type)) \o Field(2, IntBytes(ch.Version))
    \o Field(4, ch.ChannelId) \o Field(6, IntBytes(ch.Epoch))
    \o Field(8, ch.TlsCertHash)

MarshalSignatureHeader(sh) == Field(1, sh.Creator) \o Field(2, sh.Nonce)

MarshalHeader(h) == Field(1, h.ChannelHeader) \o Field(2, h.SignatureHeader)

MarshalPayload(p) == MessageField(1, MarshalHeader(p.Header)) \o Field(2, p.Data)

MarshalEnvelope(e) == Field(1, e.Payload) \o Field(2, e.Signature)

RECURSIVE MarshalRepeated(_, _)
MarshalRepeated(tag, msgs) ==
  IF msgs = <<>> THEN <<>>
  ELSE MessageField(tag, Head(msgs)) \o MarshalRepeated(tag, Tail(msgs))

MarshalConfigUpdateEnvelope(c) ==
  Field(1, c.ConfigUpdate) \o MarshalRepeated(2, c.Signatures)

\* every occurrence of a nested message field is itself parsed
NestedOk(fields, tag) ==
  \A i \in 1..Len(fields) : fields[i].tag = tag => Parse(fields[i].val).ok

UnmarshalEnvelope(b) ==
  LET p == Parse(b)
  IN [ok |-> p.ok, Payload |-> GetField(p.fields, 1), Signature |-> GetField(p.fields, 2)]

UnmarshalPayload(b) ==
  LET p == Parse(b)
  IN [ok |-> p.ok /\ NestedOk(p.fields, 1),
      Header |-> GetField(p.fields, 1), Data |-> GetField(p.fields, 2)]

UnmarshalHeader(b) ==
  LET p == Parse(b)
  IN [ok |-> p.ok, ChannelHeader |-> GetField(p.fields, 1),
      SignatureHeader |-> GetField(p.fields, 2)]

UnmarshalChannelHeader(b) ==
  LET p == Parse(b)
  IN [ok |-> p.ok, Type |-> GetField(p.fields, 1), Version |-> GetField(p.fields, 2),
      ChannelId |-> GetField(p.fields, 4), Epoch |-> GetField(p.fields, 6),
      TlsCertHash |-> GetField(p.fields, 8)]

UnmarshalSignatureHeader(b) ==
  LET p == Parse(b)
  IN [ok |-> p.ok, Creator |-> GetField(p.fields, 1), Nonce |-> GetField(p.fields, 2)]

UnmarshalConfigUpdateEnvelope(b) ==
  LET p == Parse(b)
  IN [ok |-> p.ok /\ NestedOk(p.fields, 2), ConfigUpdate |-> GetField(p.fields, 1)]

(***************************************************************************)
(* Collaborators of the identity context.                                  *)
(***************************************************************************)
Sign(object, key) == <<key>> \o object

GetRandomNonce(n) == <<20 + n>>

MakeChannelHeader(headerType, version, chainID, epoch) ==
  [Type |-> headerType, Version |-> version, ChannelId |-> chainID, Epoch |-> epoch,
   TlsCertHash |-> <<>>]

MakePayloadHeader(ch, sh) ==
  [ChannelHeader |-> MarshalChannelHeader(ch),
   SignatureHeader |-> MarshalSignatureHeader(sh)]

ConcatenateBytes(a, b) == a \o b

\* createSignedEnvelope without the TlsCertHash assignment
createSignedEnvelope_NoTLSCertHash(msg, chID, tls, idOk, nonceOk, signOk, n) ==
  LET msgVersion == 0
      epoch == 0
      ch0 == MakeChannelHeader(HeaderType_DELIVER_SEEK_INFO, msgVersion, chID, epoch)
      payloadChannelHeader == ch0
      m == MarshalSeekInfo(msg)
      data == m.bytes
      nonce == GetRandomNonce(n)
      payloadSignatureHeader == [Creator |-> IdentityBytes, Nonce |-> nonce]
      paylBytes == MarshalPayload(
                     [Header |-> MakePayloadHeader(payloadChannelHeader,
                                                   payloadSignatureHeader),
                      Data |-> data])
  IN IF m.err # NoErr
     THEN [env |-> NoEnvelope, err |-> m.err, invoked |-> <<"Marshal">>]
     ELSE IF ~idOk
     THEN [env |-> NoEnvelope, err |-> ErrIdentity, invoked |-> <<"Marshal", "Identity">>]
     ELSE IF ~nonceOk
     THEN [env |-> NoEnvelope, err |-> ErrNonce,
           invoked |-> <<"Marshal", "Identity", "GetRandomNonce">>]
     ELSE IF ~signOk
     THEN [env |-> NoEnvelope, err |-> ErrSign,
           invoked |-> <<"Marshal", "Identity", "GetRandomNonce", "Sign">>]
     ELSE [env |-> [nil |-> FALSE, Payload |-> paylBytes,
                    Signature |-> Sign(data, PrivateKey)],
           err |-> NoErr,
           invoked |-> <<"Marshal", "Identity", "GetRandomNonce", "Sign">>]

(***************************************************************************)
(* createSignedEnvelope, as a function of the message, the connection's    *)
(* channel ID and TLS certificate hash, and the outcomes of the identity,  *)
(* nonce and signing collaborators (n numbers the nonce the generator      *)
(* hands out).  invoked lists the collaborators called, in call order.     *)
(***************************************************************************)
\* createSignedEnvelope asking for the nonce before the identity
createSignedEnvelope_NonceBeforeIdentity(msg, chID, tls, idOk, nonceOk, signOk, n) ==
  LET msgVersion == 0
      epoch == 0
      ch0 == MakeChannelHeader(HeaderType_DELIVER_SEEK_INFO, msgVersion, chID, epoch)
      payloadChannelHeader == [ch0 EXCEPT !.TlsCertHash = tls]
      m == MarshalSeekInfo(msg)
      data == m.bytes
      nonce == GetRandomNonce(n)
      payloadSignatureHeader == [Creator |-> IdentityBytes, Nonce |-> nonce]
      paylBytes == MarshalPayload(
                     [Header |-> MakePayloadHeader(payloadChannelHeader,
                                                   payloadSignatureHeader),
                      Data |-> data])
  IN IF m.err # NoErr
     THEN [env |-> NoEnvelope, err |-> m.err, invoked |-> <<"Marshal">>]
     ELSE IF ~nonceOk
     THEN [env |-> NoEnvelope, err |-> ErrNonce,
           invoked |-> <<"Marshal", "GetRandomNonce">>]
     ELSE IF ~idOk
     THEN [env |-> NoEnvelope, err |-> ErrIdentity,
           invoked |-> <<"Marshal", "GetRandomNonce", "Identity">>]
     ELSE IF ~signOk
     THEN [env |-> NoEnvelope, err |-> ErrSign,
           invoked |-> <<"Marshal", "GetRandomNonce", "Identity", "Sign">>]
     ELSE [env |-> [nil |-> FALSE, Payload |-> paylBytes,
                    Signature |-> Sign(data, PrivateKey)],
           err |-> NoErr,
           invoked |-> <<"Marshal", "GetRandomNonce", "Identity", "Sign">>]

createSignedEnvelope(msg, chID, tls, idOk, nonceOk, signOk, n) ==
  LET msgVersion == 0
      epoch == 0
      ch0 == MakeChannelHeader(HeaderType_DELIVER_SEEK_INFO, msgVersion, chID, epoch)
      payloadChannelHeader == [ch0 EXCEPT !.TlsCertHash = tls]
      m == MarshalSeekInfo(msg)
      data == m.bytes
      nonce == GetRandomNonce(n)
      payloadSignatureHeader == [Creator |-> IdentityBytes, Nonce |-> nonce]
      paylBytes == MarshalPayload(
                     [Header |-> MakePayloadHeader(payloadChannelHeader,
                                                   payloadSignatureHeader),
                      Data |-> data])
  IN IF m.err # NoErr
     THEN [env |-> NoEnvelope, err |-> m.err, invoked |-> <<"Marshal">>]
     ELSE IF ~idOk
     THEN [env |-> NoEnvelope, err |-> ErrIdentity, invoked |-> <<"Marshal", "Identity">>]
     ELSE IF ~nonceOk
     THEN [env |-> NoEnvelope, err |-> ErrNonce,
           invoked |-> <<"Marshal", "Identity", "GetRandomNonce">>]
     ELSE IF ~signOk
     THEN [env |-> NoEnvelope, err |-> ErrSign,
           invoked |-> <<"Marshal", "Identity", "GetRandomNonce", "Sign">>]
     ELSE [env |-> [nil |-> FALSE, Payload |-> paylBytes,
                    Signature |-> Sign(data, PrivateKey)],
           err |-> NoErr,
           invoked |-> <<"Marshal", "Identity", "GetRandomNonce", "Sign">>]

(***************************************************************************)
(* New.  comm.NewConnection dials url and then opens the stream through    *)
(* the stream provider it is handed; outcome is how that goes.  invoked    *)
(* lists what was called.                                                  *)
(***************************************************************************)
ErrNoChannelID == "channel ID not provided"
ErrDial == "dial failed"
ErrStream == "stream creation failed"
ConnectOutcomes == {"ok", ErrDial, ErrStream}
StreamProviders == {"Deliver", "DeliverFiltered"}
NoConnection == [nil |-> TRUE, channelID |-> <<>>, url |-> "", stream |-> "nil"]

NewConnection(channelID, streamProvider, url, outcome) ==
  [connect |-> IF outcome = "ok"
               THEN [nil |-> FALSE, channelID |-> channelID, url |-> url,
                     stream |-> streamProvider]
               ELSE NoConnection,
   err |-> IF outcome = "ok" THEN NoErr ELSE outcome,
   invoked |-> IF outcome = ErrDial THEN <<"NewConnection">>
               ELSE <<"NewConnection", streamProvider>>]

\* New handing an empty channel ID on to comm.NewConnection
New_NoChannelCheck(channelID, streamProvider, url, outcome) ==
  LET c == NewConnection(channelID, streamProvider, url, outcome)
  IN IF c.err # NoErr
     THEN [conn |-> NoConnection, err |-> c.err, invoked |-> c.invoked]
     ELSE [conn |-> c.connect, err |-> NoErr, invoked |-> c.invoked]

New(channelID, streamProvider, url, outcome) ==
  LET c == NewConnection(channelID, streamProvider, url, outcome)
  IN IF channelID = <<>>
     THEN [conn |-> NoConnection, err |-> ErrNoChannelID, invoked |-> <<>>]
     ELSE IF c.err # NoErr
     THEN [conn |-> NoConnection, err |-> c.err, invoked |-> c.invoked]
     ELSE [conn |-> c.connect, err |-> NoErr, invoked |-> c.invoked]

(***************************************************************************)
(* deliverStream reads c.Stream() twice with nothing held in between: h1   *)
(* is what the read of the nil test gives, h2 what the read of the type    *)
(* assertion gives.  nil for a nil h1; otherwise the stream for an h2 of   *)
(* the deliver-stream type and a panic for any other h2, nil included.     *)
(***************************************************************************)
\* if c.Stream() == nil { return nil }
deliverStreamNil(h1) == h1 = "nil"

\* stream, ok := c.Stream().(deliverStream); if !ok { panic(...) }; return stream
deliverStreamAssert(h2) ==
  IF h2 # "deliver" THEN [stream |-> "nil", panic |-> TRUE]
  ELSE [stream |-> h2, panic |-> FALSE]

deliverStream(h1, h2) ==
  IF deliverStreamNil(h1) THEN [stream |-> "nil", panic |-> FALSE]
  ELSE deliverStreamAssert(h2)

(***************************************************************************)
(* CreateConfigSignature, as a function of the config bytes and the        *)
(* outcomes of the identity, nonce, serialization and signing steps.       *)
(***************************************************************************)
ErrCfgIdentity == "failed to get user context's identity: identity failed"
ErrCfgNonce == "nonce creation failed: nonce failed"
ErrCfgMarshal == "marshal signatureHeader failed: marshal failed"
ErrCfgSign == "signing of channel config failed: sign failed"
NoConfigSignature == [nil |-> TRUE, SignatureHeader |-> <<>>, Signature |-> <<>>]

\* CreateConfigSignature signing the config followed by the header
CreateConfigSignature_ConfigFirst(config, idOk, nonceOk, marshalOk, signOk, n) ==
  LET creator == IdentityBytes
      nonce == GetRandomNonce(n)
      signatureHeader == [Creator |-> creator, Nonce |-> nonce]
      signatureHeaderBytes == MarshalSignatureHeader(signatureHeader)
      signingBytes == ConcatenateBytes(config, signatureHeaderBytes)
  IN IF ~idOk
     THEN [sig |-> NoConfigSignature, err |-> ErrCfgIdentity, invoked |-> <<"Identity">>]
     ELSE IF ~nonceOk
     THEN [sig |-> NoConfigSignature, err |-> ErrCfgNonce,
           invoked |-> <<"Identity", "GetRandomNonce">>]
     ELSE IF ~marshalOk
     THEN [sig |-> NoConfigSignature, err |-> ErrCfgMarshal,
           invoked |-> <<"Identity", "GetRandomNonce", "Marshal">>]
     ELSE IF ~signOk
     THEN [sig |-> NoConfigSignature, err |-> ErrCfgSign,
           invoked |-> <<"Identity", "GetRandomNonce", "Marshal", "Sign">>]
     ELSE [sig |-> [nil |-> FALSE, SignatureHeader |-> signatureHeaderBytes,
                    Signature |-> Sign(signingBytes, PrivateKey)],
           err |-> NoErr,
           invoked |-> <<"Identity", "GetRandomNonce", "Marshal", "Sign">>]

\* CreateConfigSignature keeping the first nonce it was given for later calls
CreateConfigSignature_CachedNonce(config, idOk, nonceOk, marshalOk, signOk, n) ==
  LET creator == IdentityBytes
      nonce == GetRandomNonce(1)
      signatureHeader == [Creator |-> creator, Nonce |-> nonce]
      signatureHeaderBytes == MarshalSignatureHeader(signatureHeader)
      signingBytes == ConcatenateBytes(signatureHeaderBytes, config)
  IN IF ~idOk
     THEN [sig |-> NoConfigSignature, err |-> ErrCfgIdentity, invoked |-> <<"Identity">>]
     ELSE IF ~nonceOk
     THEN [sig |-> NoConfigSignature, err |-> ErrCfgNonce,
           invoked |-> <<"Identity", "GetRandomNonce">>]
     ELSE IF ~marshalOk
     THEN [sig |-> NoConfigSignature, err |-> ErrCfgMarshal,
           invoked |-> <<"Identity", "GetRandomNonce", "Marshal">>]
     ELSE IF ~signOk
     THEN [sig |-> NoConfigSignature, err |-> ErrCfgSign,
           invoked |-> <<"Identity", "GetRandomNonce", "Marshal", "Sign">>]
     ELSE [sig |-> [nil |-> FALSE, SignatureHeader |-> signatureHeaderBytes,
                    Signature |-> Sign(signingBytes, PrivateKey)],
           err |-> NoErr,
           invoked |-> <<"Identity", "GetRandomNonce", "Marshal", "Sign">>]

CreateConfigSignature(config, idOk, nonceOk, marshalOk, signOk, n) ==
  LET creator == IdentityBytes
      nonce == GetRandomNonce(n)
      signatureHeader == [Creator |-> creator, Nonce |-> nonce]
      signatureHeaderBytes == MarshalSignatureHeader(signatureHeader)
      signingBytes == ConcatenateBytes(signatureHeaderBytes, config)
  IN IF ~idOk
     THEN [sig |-> NoConfigSignature, err |-> ErrCfgIdentity, invoked |-> <<"Identity">>]
     ELSE IF ~nonceOk
     THEN [sig |-> NoConfigSignature, err |-> ErrCfgNonce,
           invoked |-> <<"Identity", "GetRandomNonce">>]
     ELSE IF ~marshalOk
     THEN [sig |-> NoConfigSignature, err |-> ErrCfgMarshal,
           invoked |-> <<"Identity", "GetRandomNonce", "Marshal">>]
     ELSE IF ~signOk
     THEN [sig |-> NoConfigSignature, err |-> ErrCfgSign,
           invoked |-> <<"Identity", "GetRandomNonce", "Marshal", "Sign">>]
     ELSE [sig |-> [nil |-> FALSE, SignatureHeader |-> signatureHeaderBytes,
                    Signature |-> Sign(signingBytes, PrivateKey)],
           err |-> NoErr,
           invoked |-> <<"Identity", "GetRandomNonce", "Marshal", "Sign">>]

(***************************************************************************)
(* ExtractChannelConfig.  attempted lists the layers whose deserialization *)
(* was tried.                                                              *)
(***************************************************************************)
ErrEnvelope == "unmarshal config envelope failed"
ErrPayload == "unmarshal envelope payload failed"
ErrConfigUpdateEnvelope == "unmarshal config update envelope"

\* ExtractChannelConfig going on after a payload that failed to deserialize
ExtractChannelConfig_PayloadErrorIgnored(configEnvelope) ==
  LET envelope == UnmarshalEnvelope(configEnvelope)
      payload == UnmarshalPayload(envelope.Payload)
      configUpdateEnvelope == UnmarshalConfigUpdateEnvelope(payload.Data)
  IN IF ~envelope.ok
     THEN [bytes |-> <<>>, err |-> ErrEnvelope, attempted |-> <<"Envelope">>]
     ELSE IF ~configUpdateEnvelope.ok
     THEN [bytes |-> <<>>, err |-> ErrConfigUpdateEnvelope,
           attempted |-> <<"Envelope", "Payload", "ConfigUpdateEnvelope">>]
     ELSE [bytes |-> configUpdateEnvelope.ConfigUpdate, err |-> NoErr,
           attempted |-> <<"Envelope", "Payload", "ConfigUpdateEnvelope">>]

ExtractChannelConfig(configEnvelope) ==
  LET envelope == UnmarshalEnvelope(configEnvelope)
      payload == UnmarshalPayload(envelope.Payload)
      configUpdateEnvelope == UnmarshalConfigUpdateEnvelope(payload.Data)
  IN IF ~envelope.ok
     THEN [bytes |-> <<>>, err |-> ErrEnvelope, attempted |-> <<"Envelope">>]
     ELSE IF ~payload.ok
     THEN [bytes |-> <<>>, err |-> ErrPayload, attempted |-> <<"Envelope", "Payload">>]
     ELSE IF ~configUpdateEnvelope.ok
     THEN [bytes |-> <<>>, err |-> ErrConfigUpdateEnvelope,
           attempted |-> <<"Envelope", "Payload", "ConfigUpdateEnvelope">>]
     ELSE [bytes |-> configUpdateEnvelope.ConfigUpdate, err |-> NoErr,
           attempted |-> <<"Envelope", "Payload", "ConfigUpdateEnvelope">>]


\* Send without the Closed() check
Send_NoClosedCheck(isClosed, r) ==
  IF r.err # NoErr
  THEN [ret |-> r.err, invoked |-> r.invoked, env |-> NoEnvelope, next |-> "idle"]
  ELSE [ret |-> "pending", invoked |-> r.invoked, env |-> r.env, next |-> "write"]

(***************************************************************************)
(* Send up to the stream write: the Closed() check, then the result r of   *)
(* createSignedEnvelope.  next = "write" when the envelope is to be        *)
(* written.                                                                *)
(***************************************************************************)
Send(isClosed, r) ==
  IF isClosed
  THEN [ret |-> ErrClosed, invoked |-> <<>>, env |-> NoEnvelope, next |-> "idle"]
  ELSE IF r.err # NoErr
  THEN [ret |-> r.err, invoked |-> r.invoked, env |-> NoEnvelope, next |-> "idle"]
  ELSE [ret |-> "pending", invoked |-> r.invoked, env |-> r.env, next |-> "write"]

\* Receive without the io.EOF branch: end-of-stream handled as any other error
ReceiveBranch_NoEOF(isClosed, err) ==
  IF isClosed THEN "break"
  ELSE IF err # NoErr THEN "disconnected"
  ELSE "forward"

\* Receive leaving the loop on an error without the disconnected event
ReceiveBranch_QuietError(isClosed, err) ==
  IF isClosed THEN "break"
  ELSE IF err = EOF THEN "break"
  ELSE IF err # NoErr THEN "break"
  ELSE "forward"

\* Receive testing Closed() after the io.EOF and error branches
ReceiveBranch_ClosedLast(isClosed, err) ==
  IF err = EOF THEN "break"
  ELSE IF err # NoErr THEN "disconnected"
  ELSE IF isClosed THEN "break"
  ELSE "forward"

\* Receive without the Closed() check
ReceiveBranch_NoClosedCheck(isClosed, err) ==
  IF err = EOF THEN "break"
  ELSE IF err # NoErr THEN "disconnected"
  ELSE "forward"

\* Receive forwarding a message before it looks at Closed()
ReceiveBranch_MessageFirst(isClosed, err) ==
  IF err = NoErr THEN "forward"
  ELSE IF isClosed THEN "break"
  ELSE IF err = EOF THEN "break"
  ELSE "disconnected"

(***************************************************************************)
(* Receive after stream.Recv() has returned (in, err): the Closed() check, *)
(* the io.EOF check, the error check.  "break" leaves the loop at once,    *)
(* "disconnected" sends the disconnected event and leaves the loop,        *)
(* "forward" sends in and starts the next iteration.                       *)
(***************************************************************************)
ReceiveBranch(isClosed, err) ==
  IF isClosed THEN "break"
  ELSE IF err = EOF THEN "break"
  ELSE IF err # NoErr THEN "disconnected"
  ELSE "forward"

\* the nonce in the signature header of an envelope's payload
NonceOfEnvelope(env) ==
  UnmarshalSignatureHeader(
    UnmarshalHeader(UnmarshalPayload(env.Payload).Header).SignatureHeader).Nonce

\* the nonce in the signature header of a config signature
NonceOfConfigSignature(sig) == UnmarshalSignatureHeader(sig.SignatureHeader).Nonce

(***************************************************************************)
(* State.                                                                  *)
(***************************************************************************)
VARIABLES
  closed,       \* GRPCConnection.Closed()
  handle,       \* GRPCConnection.Stream(): "nil", "deliver" or "other"
  channelID,    \* GRPCConnection.ChannelID()
  tlsCertHash,  \* GRPCConnection.TLSCertHash()
  rpc,          \* position of Receive: idle, top, assert, recv, check, disconnected,
                \* forward, done
  rin,          \* Receive's locals in, err
  recvs,        \* one record per Receive invocation
  starts,       \* every stream.Recv() call started, with Closed() at that moment
  reads,        \* every result stream.Recv() has returned, with its invocation
  checks,       \* what Closed() returned at the check after each read
  eventch,      \* everything placed on the event channel
  spc,          \* position of Send: idle, write, assert, sending
  senv,         \* Send's local env
  sends,        \* one record per Send invocation
  writes,       \* every envelope handed to stream.Send, with what stream.Send returned
  nonceCtr,     \* number of nonces the generator has handed out
  panicked,     \* "none", or the panic that aborted the process
  cfgsig,       \* the last CreateConfigSignature call and its result
  ext,          \* the last ExtractChannelConfig call and its result
  built,        \* the last createSignedEnvelope call made on its own, and its result
  made,         \* the last New call and its result
  nonces        \* the nonce in every signed object a builder has returned

vars == <<closed, handle, channelID, tlsCertHash, rpc, rin, recvs, starts, reads,
          checks, eventch, spc, senv, sends, writes, nonceCtr, panicked, cfgsig, ext,
          built, made, nonces>>

connVars == <<closed, handle, channelID, tlsCertHash>>
recvVars == <<rpc, rin, recvs, starts, reads, checks, eventch>>
sendVars == <<spc, senv, sends, writes>>
utilVars == <<cfgsig, ext, built, made, nonces>>

ReadOutcomes ==
  {[in |-> m, err |-> NoErr] : m \in Msgs}
    \cup {[in |-> "nil", err |-> e] : e \in Errs \cup {EOF}}

NoRead == [in |-> "nil", err |-> NoErr]

PanicNilStream == "nil pointer dereference"
PanicStreamType == "invalid DeliverStream type"

NoCall == [called |-> FALSE]

\* a connection of any channel ID and TLS certificate hash
InitAny ==
  /\ closed = FALSE
  /\ handle \in {"nil", "deliver", "other"}
  /\ \E c \in Conns : channelID = c.channelID /\ tlsCertHash = c.tlsCertHash
  /\ rpc = "idle"
  /\ rin = NoRead
  /\ recvs = <<>>
  /\ starts = <<>>
  /\ reads = <<>>
  /\ checks = <<>>
  /\ eventch = <<>>
  /\ spc = "idle"
  /\ senv = NoEnvelope
  /\ sends = <<>>
  /\ writes = <<>>
  /\ nonceCtr = 0
  /\ panicked = "none"
  /\ cfgsig = NoCall
  /\ ext = NoCall
  /\ built = NoCall
  /\ made = NoCall
  /\ nonces = <<>>

\* one connection: Send and Receive take the same steps whatever the channel ID
\* and the TLS certificate hash are
Init == InitAny /\ channelID = <<9, 8>>

(***************************************************************************)
(* The connection collaborator: Close sets the closed flag, and the stream *)
(* may be torn down out of band.                                           *)
(***************************************************************************)
Close ==
  /\ panicked = "none"
  /\ ~closed
  /\ closed' = TRUE
  /\ UNCHANGED <<handle, channelID, tlsCertHash, panicked, nonceCtr>>
  /\ UNCHANGED recvVars
  /\ UNCHANGED sendVars
  /\ UNCHANGED utilVars

TearDown ==
  /\ panicked = "none"
  /\ handle = "deliver"
  /\ handle' = "nil"
  /\ UNCHANGED <<closed, channelID, tlsCertHash, panicked, nonceCtr>>
  /\ UNCHANGED recvVars
  /\ UNCHANGED sendVars
  /\ UNCHANGED utilVars

(***************************************************************************)
(* Receive.                                                                *)
(***************************************************************************)
ReceiveCall ==
  /\ panicked = "none"
  /\ rpc \in {"idle", "done"}
  /\ Len(recvs) < MaxRecvCalls
  /\ recvs' = Append(recvs, [closedAtCall |-> closed])
  /\ rpc' = "top"
  /\ UNCHANGED <<rin, starts, reads, checks, eventch, panicked, nonceCtr>>
  /\ UNCHANGED connVars
  /\ UNCHANGED sendVars
  /\ UNCHANGED utilVars

\* the stream fetched without the nil test
ReceiveStream_NoNilCheck ==
  /\ panicked = "none"
  /\ rpc = "top"
  /\ rpc' = "assert"
  /\ UNCHANGED <<rin, recvs, starts, reads, checks, eventch, panicked, nonceCtr>>
  /\ UNCHANGED connVars
  /\ UNCHANGED sendVars
  /\ UNCHANGED utilVars

\* stream := c.deliverStream(), up to its nil test: a nil handle ends the loop
ReceiveStream ==
  /\ panicked = "none"
  /\ rpc = "top"
  /\ rpc' = IF deliverStreamNil(handle) THEN "done" ELSE "assert"
  /\ UNCHANGED <<rin, recvs, starts, reads, checks, eventch, panicked, nonceCtr>>
  /\ UNCHANGED connVars
  /\ UNCHANGED sendVars
  /\ UNCHANGED utilVars

\* the type assertion of deliverStream on the handle read again, then Recv is
\* called on the stream
ReceiveStreamAssert ==
  /\ panicked = "none"
  /\ rpc = "assert"
  /\ LET s == deliverStreamAssert(handle)
     IN IF s.panic
        THEN /\ panicked' = PanicStreamType
             /\ rpc' = rpc
             /\ starts' = starts
        ELSE /\ panicked' = panicked
             /\ rpc' = "recv"
             /\ starts' = Append(starts, [run |-> Len(recvs), closed |-> closed])
  /\ UNCHANGED <<rin, recvs, reads, checks, eventch, nonceCtr>>
  /\ UNCHANGED connVars
  /\ UNCHANGED sendVars
  /\ UNCHANGED utilVars

\* a blocked stream.Recv() abandoned as soon as the connection is closed
ReceiveRecv_Preemptive ==
  /\ panicked = "none"
  /\ rpc = "recv"
  /\ \/ /\ Len(reads) < MaxReads
        /\ \E out \in ReadOutcomes :
             /\ rin' = out
             /\ reads' = Append(reads, [run |-> Len(recvs), in |-> out.in,
                                        err |-> out.err])
        /\ rpc' = "check"
     \/ /\ closed
        /\ rpc' = "done"
        /\ UNCHANGED <<rin, reads>>
  /\ UNCHANGED <<recvs, starts, checks, eventch, panicked, nonceCtr>>
  /\ UNCHANGED connVars
  /\ UNCHANGED sendVars
  /\ UNCHANGED utilVars

\* in, err := stream.Recv() returns
ReceiveRecv ==
  /\ panicked = "none"
  /\ rpc = "recv"
  /\ Len(reads) < MaxReads
  /\ \E out \in ReadOutcomes :
       /\ rin' = out
       /\ reads' = Append(reads, [run |-> Len(recvs), in |-> out.in, err |-> out.err])
  /\ rpc' = "check"
  /\ UNCHANGED <<recvs, starts, checks, eventch, panicked, nonceCtr>>
  /\ UNCHANGED connVars
  /\ UNCHANGED sendVars
  /\ UNCHANGED utilVars

\* the checks after the read: Closed(), then io.EOF, then any other error
ReceiveCheck ==
  /\ panicked = "none"
  /\ rpc = "check"
  /\ checks' = Append(checks, closed)
  /\ LET b == ReceiveBranch(closed, rin.err)
     IN rpc' = IF b = "break" THEN "done" ELSE b
  /\ UNCHANGED <<rin, recvs, starts, reads, eventch, panicked, nonceCtr>>
  /\ UNCHANGED connVars
  /\ UNCHANGED sendVars
  /\ UNCHANGED utilVars

\* the disconnected event without the break that follows it
ReceiveDisconnected_NoBreak ==
  /\ panicked = "none"
  /\ rpc = "disconnected"
  /\ eventch' = Append(eventch, [run |-> Len(recvs), read |-> Len(reads),
                                 kind |-> "disconnected", val |-> rin.err])
  /\ rpc' = "top"
  /\ UNCHANGED <<rin, recvs, starts, reads, checks, panicked, nonceCtr>>
  /\ UNCHANGED connVars
  /\ UNCHANGED sendVars
  /\ UNCHANGED utilVars

\* eventch <- clientdisp.NewDisconnectedEvent(err); break
ReceiveDisconnected ==
  /\ panicked = "none"
  /\ rpc = "disconnected"
  /\ eventch' = Append(eventch, [run |-> Len(recvs), read |-> Len(reads),
                                 kind |-> "disconnected", val |-> rin.err])
  /\ rpc' = "done"
  /\ UNCHANGED <<rin, recvs, starts, reads, checks, panicked, nonceCtr>>
  /\ UNCHANGED connVars
  /\ UNCHANGED sendVars
  /\ UNCHANGED utilVars

\* eventch <- in; next iteration
ReceiveForward ==
  /\ panicked = "none"
  /\ rpc = "forward"
  /\ eventch' = Append(eventch, [run |-> Len(recvs), read |-> Len(reads),
                                 kind |-> "message", val |-> rin.in])
  /\ rpc' = "top"
  /\ UNCHANGED <<rin, recvs, starts, reads, checks, panicked, nonceCtr>>
  /\ UNCHANGED connVars
  /\ UNCHANGED sendVars
  /\ UNCHANGED utilVars

(***************************************************************************)
(* Send.                                                                   *)
(***************************************************************************)
\* the Closed() check and createSignedEnvelope
SendCall ==
  /\ panicked = "none"
  /\ spc = "idle"
  /\ Len(sends) < MaxSends
  /\ \E seekInfo \in SeekInfos \cup {NilMsg}, idOk \in BOOLEAN, nonceOk \in BOOLEAN,
        signOk \in BOOLEAN :
       LET r == createSignedEnvelope(seekInfo, channelID, tlsCertHash, idOk, nonceOk,
                                     signOk, nonceCtr + 1)
           s == Send(closed, r)
           drawn == \E i \in 1..Len(s.invoked) : s.invoked[i] = "GetRandomNonce"
       IN /\ sends' = Append(sends, [seekInfo |-> seekInfo, closedAtCall |-> closed,
                                     nonce |-> nonceCtr + 1, invoked |-> s.invoked,
                                     cerr |-> IF s.invoked = <<>> THEN "not built"
                                              ELSE r.err,
                                     ret |-> s.ret])
          /\ senv' = s.env
          /\ spc' = s.next
          /\ nonceCtr' = IF drawn /\ nonceOk THEN nonceCtr + 1 ELSE nonceCtr
          /\ nonces' = IF s.env.nil THEN nonces
                       ELSE Append(nonces, NonceOfEnvelope(s.env))
  /\ UNCHANGED <<writes, panicked>>
  /\ UNCHANGED connVars
  /\ UNCHANGED recvVars
  /\ UNCHANGED <<cfgsig, ext, built, made>>

\* c.deliverStream() of line 105, up to its nil test: on a nil handle it returns
\* the nil stream, and calling Send on that is a nil-pointer dereference
SendStream ==
  /\ panicked = "none"
  /\ spc = "write"
  /\ IF deliverStreamNil(handle)
     THEN panicked' = PanicNilStream /\ spc' = spc
     ELSE panicked' = panicked /\ spc' = "assert"
  /\ UNCHANGED <<senv, sends, writes, nonceCtr>>
  /\ UNCHANGED connVars
  /\ UNCHANGED recvVars
  /\ UNCHANGED utilVars

\* the type assertion of deliverStream on the handle read again, then env is
\* handed to stream.Send, which blocks until the write is done
SendWrite ==
  /\ panicked = "none"
  /\ spc = "assert"
  /\ LET s == deliverStreamAssert(handle)
     IN IF s.panic
        THEN /\ panicked' = PanicStreamType
             /\ UNCHANGED <<spc, writes>>
        ELSE /\ writes' = Append(writes, [send |-> Len(sends), env |-> senv,
                                          err |-> "pending"])
             /\ spc' = "sending"
             /\ panicked' = panicked
  /\ UNCHANGED <<senv, sends, nonceCtr>>
  /\ UNCHANGED connVars
  /\ UNCHANGED recvVars
  /\ UNCHANGED utilVars

\* Send writing the envelope a second time when the first write failed
SendReturn_Retry ==
  /\ panicked = "none"
  /\ spc = "sending"
  /\ \E werr \in {NoErr, ErrWrite} :
       LET w == writes[Len(writes)]
       IN /\ writes' = IF werr = NoErr
                       THEN [writes EXCEPT ![Len(writes)].err = werr]
                       ELSE Append([writes EXCEPT ![Len(writes)].err = werr],
                                   [w EXCEPT !.err = NoErr])
          /\ sends' = [sends EXCEPT ![Len(sends)].ret = NoErr]
  /\ spc' = "idle"
  /\ senv' = NoEnvelope
  /\ UNCHANGED <<panicked, nonceCtr>>
  /\ UNCHANGED connVars
  /\ UNCHANGED recvVars
  /\ UNCHANGED utilVars

\* stream.Send returns, and Send returns what it returned
SendReturn ==
  /\ panicked = "none"
  /\ spc = "sending"
  /\ \E werr \in {NoErr, ErrWrite} :
       /\ writes' = [writes EXCEPT ![Len(writes)].err = werr]
       /\ sends' = [sends EXCEPT ![Len(sends)].ret = werr]
  /\ spc' = "idle"
  /\ senv' = NoEnvelope
  /\ UNCHANGED <<panicked, nonceCtr>>
  /\ UNCHANGED connVars
  /\ UNCHANGED recvVars
  /\ UNCHANGED utilVars

(***************************************************************************)
(* The resource utilities.                                                 *)
(***************************************************************************)
Configs == {<<3>>, <<1, 2>>}

ConfigSignatureCall ==
  /\ panicked = "none"
  /\ nonceCtr < MaxNonces
  /\ \E config \in Configs, idOk \in BOOLEAN, nonceOk \in BOOLEAN, marshalOk \in BOOLEAN,
        signOk \in BOOLEAN :
       LET r == CreateConfigSignature(config, idOk, nonceOk, marshalOk, signOk,
                                      nonceCtr + 1)
           drawn == \E i \in 1..Len(r.invoked) : r.invoked[i] = "GetRandomNonce"
       IN /\ cfgsig' = [called |-> TRUE, config |-> config, nonce |-> nonceCtr + 1,
                        fails |-> <<~idOk, ~nonceOk, ~marshalOk, ~signOk>>, res |-> r]
          /\ nonceCtr' = IF drawn /\ nonceOk THEN nonceCtr + 1 ELSE nonceCtr
          /\ nonces' = IF r.sig.nil THEN nonces
                       ELSE Append(nonces, NonceOfConfigSignature(r.sig))
  /\ UNCHANGED <<ext, built, made, panicked>>
  /\ UNCHANGED connVars
  /\ UNCHANGED recvVars
  /\ UNCHANGED sendVars

ByteVals == {0, 1, 2}

BytesUpTo(n) == UNION {[1..k -> ByteVals] : k \in 0..n}

Junks == {<<0>>, <<1, 5>>, <<2>>}

\* a config update wrapped in its three layers, junk appended to layer number
\* layer (1 the envelope, 2 the payload, 3 the config-update envelope; 0 none)
ConfigEnvelopeOf(p, layer, junk) ==
  LET l3 == MarshalConfigUpdateEnvelope(
              [ConfigUpdate |-> p, Signatures |-> <<<<1, 1, 7>>>>])
              \o (IF layer = 3 THEN junk ELSE <<>>)
      l2 == MarshalPayload(
              [Header |-> [ChannelHeader |-> <<1, 1, 2>>, SignatureHeader |-> <<>>],
               Data |-> l3])
              \o (IF layer = 2 THEN junk ELSE <<>>)
  IN MarshalEnvelope([Payload |-> l2, Signature |-> <<8>>])
       \o (IF layer = 1 THEN junk ELSE <<>>)

ExtractInputs ==
  {ConfigEnvelopeOf(p, 0, <<>>) : p \in BytesUpTo(MaxBytes)}
    \cup {ConfigEnvelopeOf(x[1], x[2], x[3]) : x \in BytesUpTo(MaxBytes) \X (1..3) \X Junks}
    \cup BytesUpTo(MaxBytes)

ExtractCall ==
  /\ panicked = "none"
  /\ \E configEnvelope \in ExtractInputs :
       ext' = [called |-> TRUE, in |-> configEnvelope,
               out |-> ExtractChannelConfig(configEnvelope)]
  /\ UNCHANGED <<cfgsig, built, made, nonces, panicked, nonceCtr>>
  /\ UNCHANGED connVars
  /\ UNCHANGED recvVars
  /\ UNCHANGED sendVars

\* createSignedEnvelope applied on its own to the connection's channel ID and
\* TLS certificate hash
EnvelopeBuild ==
  /\ panicked = "none"
  /\ nonceCtr < MaxNonces
  /\ \E msg \in SeekInfos \cup {NilMsg}, idOk \in BOOLEAN, nonceOk \in BOOLEAN,
        signOk \in BOOLEAN :
       LET r == createSignedEnvelope(msg, channelID, tlsCertHash, idOk, nonceOk, signOk,
                                     nonceCtr + 1)
           drawn == \E i \in 1..Len(r.invoked) : r.invoked[i] = "GetRandomNonce"
       IN /\ built' = [called |-> TRUE, msg |-> msg, nonce |-> nonceCtr + 1,
                       fails |-> <<msg.nil, ~idOk, ~nonceOk, ~signOk>>, res |-> r]
          /\ nonceCtr' = IF drawn /\ nonceOk THEN nonceCtr + 1 ELSE nonceCtr
          /\ nonces' = IF r.env.nil THEN nonces
                       ELSE Append(nonces, NonceOfEnvelope(r.env))
  /\ UNCHANGED <<cfgsig, ext, made, panicked>>
  /\ UNCHANGED connVars
  /\ UNCHANGED recvVars
  /\ UNCHANGED sendVars

Urls == {"peer0:7051", "peer1:7051"}

NewCall ==
  /\ panicked = "none"
  /\ \E id \in BytesUpTo(MaxBytes), sp \in StreamProviders, url \in Urls,
        outcome \in ConnectOutcomes :
       made' = [called |-> TRUE, channelID |-> id, streamProvider |-> sp, url |-> url,
                outcome |-> outcome, res |-> New(id, sp, url, outcome)]
  /\ UNCHANGED <<cfgsig, ext, built, nonces, panicked, nonceCtr>>
  /\ UNCHANGED connVars
  /\ UNCHANGED recvVars
  /\ UNCHANGED sendVars

Next ==
  \/ Close
  \/ TearDown
  \/ ReceiveCall
  \/ ReceiveStream
  \/ ReceiveStreamAssert
  \/ ReceiveRecv
  \/ ReceiveCheck
  \/ ReceiveDisconnected
  \/ ReceiveForward
  \/ SendCall
  \/ SendStream
  \/ SendWrite
  \/ SendReturn

Spec == Init /\ [][Next]_vars

\* Receive runs on a task of its own: its steps are taken, every started read
\* returns and every send on the event channel completes
ReceiveFairness ==
  /\ WF_vars(ReceiveStream)
  /\ WF_vars(ReceiveStreamAssert)
  /\ WF_vars(ReceiveRecv)
  /\ WF_vars(ReceiveCheck)
  /\ WF_vars(ReceiveDisconnected)
  /\ WF_vars(ReceiveForward)

SpecLive == Init /\ [][Next]_vars /\ ReceiveFairness

\* Send together with CreateConfigSignature, sharing the nonce generator
NextSign ==
  \/ Close
  \/ TearDown
  \/ SendCall
  \/ SendStream
  \/ SendWrite
  \/ SendReturn
  \/ ConfigSignatureCall

\* any connection, its stream of the deliver type until it is torn down
InitSign == InitAny /\ handle = "deliver"

SpecSign == InitSign /\ [][NextSign]_vars

\* ExtractChannelConfig alone
InitExtract == Init /\ handle = "deliver"

\* the two builders, each called on its own
NextBuild ==
  \/ EnvelopeBuild
  \/ ConfigSignatureCall

SpecBuild == InitExtract /\ [][NextBuild]_vars

\* New alone
NextNew == NewCall

SpecNew == InitExtract /\ [][NextNew]_vars

NextExtract == ExtractCall

SpecExtract == InitExtract /\ [][NextExtract]_vars

TypeOK ==
  /\ closed \in BOOLEAN
  /\ handle \in {"nil", "deliver", "other"}
  /\ rpc \in {"idle", "top", "assert", "recv", "check", "disconnected", "forward", "done"}
  /\ spc \in {"idle", "write", "assert", "sending"}
  /\ Len(reads) <= MaxReads
  /\ Len(sends) <= MaxSends

(***************************************************************************)
(* Properties of Receive and Send.                                         *)
(***************************************************************************)
RunIdx(r) == {i \in 1..Len(reads) : reads[i].run = r}

EventsOfRun(r) == SelectSeq(eventch, LAMBDA e : e.run = r)

EventsOfRead(i) == SelectSeq(eventch, LAMBDA e : e.read = i)

RunFinished(r) == r < Len(recvs) \/ (r = Len(recvs) /\ rpc = "done")

Checked(i) == i <= Len(checks)

WritesOfSend(k) == SelectSeq(writes, LAMBDA w : w.send = k)

\* C1: in every Receive invocation a disconnected event is the last thing the
\* invocation places on the event channel, so there is at most one and nothing
\* follows it.
C1_DisconnectedIsLast ==
  \A r \in 1..Len(recvs) :
    LET es == EventsOfRun(r)
    IN \A k \in 1..Len(es) : es[k].kind = "disconnected" => k = Len(es)

C1_Witness ==
  \E r \in 1..Len(recvs) :
    LET es == EventsOfRun(r)
    IN /\ Len(es) >= 2
       /\ es[Len(es)].kind = "disconnected"
       /\ RunFinished(r)
       /\ closed

\* C2: a Send called while the closed flag is true returns a non-nil error,
\* invokes no envelope construction step and writes nothing to the stream.
C2_SendOnClosed ==
  \A k \in 1..Len(sends) :
    sends[k].closedAtCall =>
      /\ sends[k].ret \notin {NoErr, "pending"}
      /\ sends[k].invoked = <<>>
      /\ WritesOfSend(k) = <<>>

C2_Witness ==
  \E k \in 1..Len(sends) :
    /\ sends[k].closedAtCall
    /\ sends[k].ret = ErrClosed
    /\ handle = "deliver"

\* C3: with the connection open, when the reads of a Receive invocation are n
\* messages followed by end-of-stream, the invocation has placed exactly those n
\* messages on the channel, in the order read, has exited, and has made no read
\* after the end-of-stream one.
C3_ForwardThenEOF ==
  \A i \in 1..Len(reads) :
    LET r == reads[i].run
        first == CHOOSE j \in RunIdx(r) : \A k \in RunIdx(r) : j <= k
    IN ( /\ ~closed
         /\ reads[i].err = EOF
         /\ Checked(i)
         /\ \A j \in RunIdx(r) : j < i => reads[j].err = NoErr )
       => /\ \A j \in RunIdx(r) : j <= i
          /\ RunFinished(r)
          /\ EventsOfRun(r) =
               [k \in 1..(i - first) |->
                  [run |-> r, read |-> first + k - 1, kind |-> "message",
                   val |-> reads[first + k - 1].in]]

C3_Witness ==
  /\ ~closed
  /\ Len(reads) = 3
  /\ reads[1].run = reads[3].run
  /\ reads[1].in = "m2" /\ reads[2].in = "m1" /\ reads[3].err = EOF
  /\ rpc = "done"

\* C4: a read that returns an error other than end-of-stream, followed by a
\* closed check that finds the connection open, leads to exactly one event for
\* that read, a disconnected event carrying that error, after which the
\* invocation has exited; no further read is made in the invocation.
C4_ErrorDisconnects ==
  \A i \in 1..Len(reads) :
    ( /\ reads[i].err \notin {NoErr, EOF}
      /\ Checked(i)
      /\ ~checks[i] )
    => /\ \A j \in RunIdx(reads[i].run) : j <= i
       /\ IF i = Len(reads) /\ rpc = "disconnected"
          THEN EventsOfRead(i) = <<>>
          ELSE /\ EventsOfRead(i) = <<[run |-> reads[i].run, read |-> i,
                                       kind |-> "disconnected", val |-> reads[i].err]>>
               /\ RunFinished(reads[i].run)
               /\ LET es == EventsOfRun(reads[i].run) IN es[Len(es)].read = i

C4_Witness ==
  \E i \in 1..Len(reads) :
    /\ reads[i].err \in Errs
    /\ Checked(i)
    /\ ~checks[i]
    /\ i > 1 /\ reads[i - 1].run = reads[i].run
    /\ Len(EventsOfRead(i)) = 1
    /\ rpc = "done"

\* C5: when the closed check made after a read finds the flag true, no event is
\* placed for that read, whatever the read returned, and the invocation exits
\* without a further read.
C5_ClosedDiscards ==
  \A i \in 1..Len(reads) :
    (Checked(i) /\ checks[i])
    => /\ EventsOfRead(i) = <<>>
       /\ RunFinished(reads[i].run)
       /\ \A j \in RunIdx(reads[i].run) : j <= i

C5_Witness ==
  /\ Len(recvs) = 2
  /\ \E i \in 1..Len(checks), j \in 1..Len(checks) :
       /\ checks[i] /\ reads[i].err = NoErr /\ reads[i].run = 1
       /\ checks[j] /\ reads[j].err \in Errs /\ reads[j].run = 2
  /\ rpc = "done"

\* C6: no failure aborts the process, except a non-nil stream handle that is not
\* of the deliver-stream type.
C6_NoAbort ==
  panicked # "none" => (panicked = PanicStreamType /\ handle = "other")

IntOf(b) == IF b = <<>> THEN 0 ELSE b[1]

\* C7: a successful Send has written exactly one envelope, whose payload decodes
\* to data equal to the serialized seek specification, a channel header of type
\* deliver-seek-info, version 0, epoch 0, with the connection's channel ID and
\* TLS certificate hash, and a signature header with the context's identity and
\* the nonce generated in that call.
C7_EnvelopeContents ==
  \A k \in 1..Len(sends) :
    sends[k].ret = NoErr =>
      LET ws == WritesOfSend(k)
          pl == UnmarshalPayload(ws[1].env.Payload)
          hdr == UnmarshalHeader(pl.Header)
          ch == UnmarshalChannelHeader(hdr.ChannelHeader)
          sh == UnmarshalSignatureHeader(hdr.SignatureHeader)
      IN /\ Len(ws) = 1
         /\ ~ws[1].env.nil
         /\ pl.ok /\ hdr.ok /\ ch.ok /\ sh.ok
         /\ pl.Data = MarshalSeekInfo(sends[k].seekInfo).bytes
         /\ IntOf(ch.Type) = HeaderType_DELIVER_SEEK_INFO
         /\ IntOf(ch.Version) = 0
         /\ IntOf(ch.Epoch) = 0
         /\ ch.ChannelId = channelID
         /\ ch.TlsCertHash = tlsCertHash
         /\ sh.Creator = IdentityBytes
         /\ sh.Nonce = GetRandomNonce(sends[k].nonce)

C7_Witness ==
  \E k \in 1..Len(sends) :
    /\ sends[k].ret = NoErr
    /\ sends[k].seekInfo.start = 1
    /\ sends[k].nonce = 2
    /\ tlsCertHash # <<>>
    /\ Len(channelID) = 2

\* C8: the envelope Send writes is signed over the serialized seek
\* specification alone, and CreateConfigSignature signs the signature header
\* bytes followed by the config bytes and returns those header bytes.
C8_SigningScopes ==
  /\ \A i \in 1..Len(writes) :
       LET data == MarshalSeekInfo(sends[writes[i].send].seekInfo).bytes
       IN /\ writes[i].env.Signature = Sign(data, PrivateKey)
          /\ writes[i].env.Signature # Sign(writes[i].env.Payload, PrivateKey)
  /\ (cfgsig.called /\ cfgsig.res.err = NoErr) =>
       LET shBytes == MarshalSignatureHeader(
                        [Creator |-> IdentityBytes,
                         Nonce |-> GetRandomNonce(cfgsig.nonce)])
       IN /\ cfgsig.res.sig.SignatureHeader = shBytes
          /\ cfgsig.res.sig.Signature = Sign(shBytes \o cfgsig.config, PrivateKey)
          /\ cfgsig.res.sig.Signature # Sign(cfgsig.config, PrivateKey)

C8_Witness ==
  /\ Len(writes) = 1
  /\ cfgsig.called
  /\ cfgsig.res.err = NoErr
  /\ Len(cfgsig.config) = 2

LayerError(k) ==
  IF k = 1 THEN ErrEnvelope ELSE IF k = 2 THEN ErrPayload ELSE ErrConfigUpdateEnvelope

LayersTried(k) == SubSeq(<<"Envelope", "Payload", "ConfigUpdateEnvelope">>, 1, k)

\* C9: ExtractChannelConfig returns exactly p, with no error, from p wrapped in
\* its three layers; when layer k fails to deserialize it returns the error of
\* layer k and no bytes, having tried the layers in order up to k and none after.
C9_ExtractRoundTrip ==
  ext.called =>
    /\ \A p \in BytesUpTo(MaxBytes) :
         ext.in = ConfigEnvelopeOf(p, 0, <<>>) =>
           ext.out = [bytes |-> p, err |-> NoErr, attempted |-> LayersTried(3)]
    /\ \A p \in BytesUpTo(MaxBytes), k \in 1..3, j \in Junks :
         ext.in = ConfigEnvelopeOf(p, k, j) =>
           ext.out = [bytes |-> <<>>, err |-> LayerError(k), attempted |-> LayersTried(k)]
    /\ ext.out.err # NoErr =>
         /\ ext.out.bytes = <<>>
         /\ \E k \in 1..3 : ext.out.err = LayerError(k) /\ ext.out.attempted = LayersTried(k)

C9_Witness ==
  /\ ext.called
  /\ \E p \in BytesUpTo(MaxBytes) :
       /\ Len(p) = 2
       /\ p[1] = 0
       /\ ext.in = ConfigEnvelopeOf(p, 0, <<>>)
       /\ ext.out.bytes = p

Terminated == \E r \in 1..Len(recvs) : RunFinished(r)

\* C10 as stated: once a receive loop has exited, no further stream read, stream
\* write or event-channel send happens.
C10_NoActivityAfterExit ==
  [][Terminated => (reads' = reads /\ writes' = writes /\ eventch' = eventch)]_vars

\* C10 as amended: what ends the activity is the closed flag.  A Send called
\* with the flag set writes nothing to the stream, and a Receive called with the
\* flag set places nothing on the event channel and makes at most one read.
C10_ClosedEndsActivity ==
  /\ \A i \in 1..Len(writes) : ~sends[writes[i].send].closedAtCall
  /\ \A r \in 1..Len(recvs) :
       recvs[r].closedAtCall =>
         /\ EventsOfRun(r) = <<>>
         /\ Cardinality(RunIdx(r)) <= 1

C10_Witness ==
  /\ Len(recvs) = 2
  /\ ~recvs[1].closedAtCall
  /\ recvs[2].closedAtCall
  /\ Cardinality(RunIdx(2)) = 1
  /\ reads[Len(reads)].err = NoErr
  /\ rpc = "done"
  /\ \E k \in 1..Len(sends) : sends[k].closedAtCall

StartsOfRun(r) == {i \in 1..Len(starts) : starts[i].run = r}

\* a read that never returns: the model lets MaxReads reads return
ReadNeverReturns == rpc = "recv" /\ Len(reads) >= MaxReads

\* C11: a blocked read is left only by the read returning, never by the closed
\* flag; no Receive invocation starts more than one read with the flag set; and
\* with channel sends completing, once the flag is set Receive exits unless its
\* read never returns (or the process has been aborted by a panic).
C11_CloseCancels ==
  /\ [][rpc = "recv" /\ rpc' # "recv" =>
          rpc' = "check" /\ Len(reads') = Len(reads) + 1]_vars
  /\ [](\A r \in 1..Len(recvs) :
          Cardinality({i \in StartsOfRun(r) : starts[i].closed}) <= 1)
  /\ (closed ~> (rpc \in {"idle", "done"} \/ ReadNeverReturns \/ panicked # "none"))

C11_Witness ==
  /\ closed
  /\ rpc = "done"
  /\ Len(starts) = 3
  /\ starts[2].run = 1 /\ ~starts[2].closed /\ checks[2]
  /\ starts[3].run = 2 /\ starts[3].closed
  /\ reads[3].err = NoErr

\* C12 as stated: no step taken while the closed flag is true places an event
\* on the channel.
C12_NoEventWhileClosed ==
  [][closed => eventch' = eventch]_vars

\* C12 as amended: the flag is authoritative where Receive looks at it.  Every
\* event placed on the channel is for the latest read, whose closed check found
\* the flag false; a flag set after that check does not stop the send.
C12_EventOnlyAfterOpenCheck ==
  [][eventch' # eventch =>
       /\ Len(checks) = Len(reads)
       /\ ~checks[Len(checks)]
       /\ eventch' = Append(eventch, eventch'[Len(eventch')])
       /\ eventch'[Len(eventch')].read = Len(reads)]_vars

C12_Witness ==
  /\ closed
  /\ rpc = "forward"
  /\ Len(checks) = Len(reads)
  /\ ~checks[Len(checks)]
  /\ Len(eventch) = 1

\* C13: an iteration of Receive that finds the stream handle nil leaves the loop
\* at once: it starts no read and places no event, whatever the closed flag is,
\* at the first iteration and after forwarded messages alike.
C13_NilStreamExits ==
  [][rpc = "top" /\ handle = "nil" /\ rpc' # rpc =>
       /\ rpc' = "done"
       /\ starts' = starts
       /\ reads' = reads
       /\ eventch' = eventch]_vars

C13_Witness ==
  /\ rpc = "done"
  /\ handle = "nil"
  /\ ~closed
  /\ Len(reads) = 2
  /\ Len(starts) = 2
  /\ Len(eventch) = 2
  /\ eventch[2].read = 2
  /\ eventch[2].kind = "message"

\* C14: a Send call writes to the stream at most once; when envelope
\* construction fails it writes nothing and returns the construction error; when
\* its write fails it returns that write's error; and it returns nil only after
\* a write that succeeded.
C14_SingleWrite ==
  \A k \in 1..Len(sends) :
    LET ws == WritesOfSend(k)
        s == sends[k]
    IN /\ Len(ws) <= 1
       /\ s.cerr \notin {"not built", NoErr} => s.ret = s.cerr /\ Len(ws) = 0
       /\ (Len(ws) = 1 /\ ws[1].err # NoErr) => s.ret = ws[1].err
       /\ s.ret = NoErr => Len(ws) = 1 /\ ws[1].err = NoErr

C14_Witness ==
  /\ Len(sends) = 1
  /\ spc = "idle"
  /\ sends[1].ret = ErrWrite
  /\ Len(writes) = 1
  /\ ~writes[1].env.nil

(***************************************************************************)
(* Properties of the builders and of New.                                  *)
(***************************************************************************)
EnvelopeSteps == <<"Marshal", "Identity", "GetRandomNonce", "Sign">>

EnvelopeStepErrors == <<ErrMarshalNil, ErrIdentity, ErrNonce, ErrSign>>

ConfigSignatureSteps == <<"Identity", "GetRandomNonce", "Marshal", "Sign">>

ConfigSignatureStepErrors == <<ErrCfgIdentity, ErrCfgNonce, ErrCfgMarshal, ErrCfgSign>>

\* the first step that fails, 0 when none does
FirstFailing(fails) ==
  IF \E i \in 1..Len(fails) : fails[i]
  THEN CHOOSE i \in 1..Len(fails) : fails[i] /\ \A j \in 1..(i - 1) : ~fails[j]
  ELSE 0

\* C15: each builder stops at the first step that fails, the steps taken in the
\* order serialization, identity, nonce, signing for createSignedEnvelope and
\* identity, nonce, header serialization, signing for CreateConfigSignature: the
\* error is that step's (unmodified for createSignedEnvelope), no later step is
\* invoked and no envelope or signature is returned.
C15_FailFast ==
  /\ built.called =>
       LET k == FirstFailing(built.fails)
           r == built.res
       IN IF k = 0
          THEN r.err = NoErr /\ ~r.env.nil /\ r.invoked = EnvelopeSteps
          ELSE /\ r.err = EnvelopeStepErrors[k]
               /\ r.invoked = SubSeq(EnvelopeSteps, 1, k)
               /\ r.env = NoEnvelope
  /\ cfgsig.called =>
       LET k == FirstFailing(cfgsig.fails)
           r == cfgsig.res
       IN IF k = 0
          THEN r.err = NoErr /\ ~r.sig.nil /\ r.invoked = ConfigSignatureSteps
          ELSE /\ r.err = ConfigSignatureStepErrors[k]
               /\ r.invoked = SubSeq(ConfigSignatureSteps, 1, k)
               /\ r.sig = NoConfigSignature

C15_Witness ==
  /\ built.called
  /\ built.fails = <<FALSE, TRUE, TRUE, TRUE>>
  /\ cfgsig.called
  /\ cfgsig.fails = <<FALSE, TRUE, FALSE, TRUE>>

NonceDraws(invoked) ==
  Cardinality({i \in 1..Len(invoked) : invoked[i] = "GetRandomNonce"})

\* the nonce of every signed object is one the generator gave to the call that
\* built it, and no two signed objects have the same nonce
NoncesFresh ==
  /\ \A i \in 1..Len(writes) :
       NonceOfEnvelope(writes[i].env) = GetRandomNonce(sends[writes[i].send].nonce)
  /\ (cfgsig.called /\ ~cfgsig.res.sig.nil) =>
       NonceOfConfigSignature(cfgsig.res.sig) = GetRandomNonce(cfgsig.nonce)
  /\ \A i \in 1..Len(nonces) :
       /\ nonces[i] # <<>>
       /\ \A j \in 1..Len(nonces) : nonces[i] = nonces[j] => i = j

SendDrawsOnce ==
  \A k \in 1..Len(sends) :
    NonceDraws(sends[k].invoked) =
      IF sends[k].cerr \in {"not built", ErrMarshalNil, ErrIdentity} THEN 0 ELSE 1

\* C16 as stated: every Send that reaches the nonce step and every
\* CreateConfigSignature call invokes the nonce generator exactly once, embeds
\* that value, and no two signed objects carry the same nonce.
C16_EveryCallDrawsOnce ==
  /\ SendDrawsOnce
  /\ cfgsig.called => NonceDraws(cfgsig.res.invoked) = 1
  /\ NoncesFresh

\* C16 as amended: every Send and every CreateConfigSignature call that reaches
\* the nonce step invokes the nonce generator exactly once (a call that fails
\* before that step does not invoke it), embeds that value, and no two signed
\* objects carry the same nonce.
C16_FreshNonces ==
  /\ SendDrawsOnce
  /\ cfgsig.called =>
       NonceDraws(cfgsig.res.invoked) = IF cfgsig.fails[1] THEN 0 ELSE 1
  /\ NoncesFresh

C16_Witness ==
  /\ Len(nonces) = 3
  /\ Len(writes) = 1
  /\ sends[1].nonce = 3
  /\ cfgsig.called
  /\ ~cfgsig.res.sig.nil
  /\ cfgsig.nonce = 2

\* C17: New called with an empty channel ID returns an error and no connection,
\* and calls neither comm.NewConnection nor the stream provider.
C17_EmptyChannelID ==
  (made.called /\ made.channelID = <<>>) =>
    /\ made.res.err = ErrNoChannelID
    /\ made.res.conn = NoConnection
    /\ made.res.invoked = <<>>

C17_Witness ==
  /\ made.called
  /\ made.channelID = <<>>
  /\ made.outcome = "ok"
  /\ made.streamProvider = "DeliverFiltered"
  /\ made.res.err # NoErr

\* the reads whose event is due: the flag was found false after the read, the
\* read was not the end of the stream, and Receive is not still on its way to
\* the channel send
DueReads ==
  {i \in 1..Len(checks) :
     /\ ~checks[i]
     /\ reads[i].err # EOF
     /\ ~(i = Len(reads) /\ rpc \in {"forward", "disconnected"} /\ panicked = "none")}

\* what Receive forwards is decided by the read outcomes and the closed flag
\* alone: one event for each due read, in the order of the reads
EventsAsWithoutSend ==
  /\ \A i \in DueReads :
       LET es == EventsOfRead(i)
       IN /\ Len(es) = 1
          /\ es[1].kind = (IF reads[i].err = NoErr THEN "message" ELSE "disconnected")
          /\ es[1].val = (IF reads[i].err = NoErr THEN reads[i].in ELSE reads[i].err)
  /\ \A k \in 1..Len(eventch) :
       /\ eventch[k].read \in DueReads
       /\ k > 1 => eventch[k - 1].read < eventch[k].read

\* C18: no step of Send places anything on the event channel, no step of
\* Receive writes to the stream, and the events Receive forwards are those the
\* read outcomes and the closed flag call for, whatever Send does.
C18_SendAndReceiveApart ==
  /\ [][(sends' # sends \/ spc' # spc) => eventch' = eventch]_vars
  /\ [][(rpc' # rpc \/ reads' # reads) => writes' = writes]_vars
  /\ []EventsAsWithoutSend

====
